---- MODULE Spec2Model ----
(***************************************************************************)
(* AmazonTokenStrategy (src/lib/Strategy.js): a passport strategy that     *)
(* takes an access token from the request, fetches the Amazon profile      *)
(* through the OAuth2 client, normalizes it, hands it to the application   *)
(* verify callback and reports success, fail or error to the host.         *)
(***************************************************************************)
EXTENDS Integers, Sequences, FiniteSets, TLC

(***************************************************************************)
(* Bounds of the model.                                                    *)
(***************************************************************************)
\* authenticate calls that may exist on the one strategy object
NCalls == 2
\* invocations of the continuation `verified` the application makes per call
MaxVerified == 2

Calls == 1..NCalls

(***************************************************************************)
(* JavaScript values.  Every value is a record tagged by its type in t.    *)
(* An object is a sequence of <<key, value>> pairs in insertion order.     *)
(* A string holding JSON text is kept as its sequence of tokens.           *)
(***************************************************************************)
undefined == [t |-> "undefined"]
null == [t |-> "null"]
Bool(b) == [t |-> "boolean", b |-> b]
Str(s) == [t |-> "string", s |-> s]
Obj(f) == [t |-> "object", f |-> f]
Arr(a) == [t |-> "array", a |-> a]
Num(n) == [t |-> "number", n |-> n]
Text(toks) == [t |-> "text", toks |-> toks]

\* an Error object: its class, message, and the oauthError a wrapper carries
Err(name, message, oauthError) ==
  [t |-> "error", name |-> name, message |-> message, oauthError |-> oauthError]

\* JavaScript truthiness, as `if (x)`, `!x`, `a || b` and `a && b` test it
Truthy(v) ==
  CASE v.t = "undefined" -> FALSE
    [] v.t = "null" -> FALSE
    [] v.t = "boolean" -> v.b
    [] v.t = "string" -> v.s # ""
    [] v.t = "number" -> v.n # 0
    [] v.t = "text" -> v.toks # <<>>
    [] OTHER -> TRUE

\* a || b and a && b yield one of their operands
Or(a, b) == IF Truthy(a) THEN a ELSE b
And(a, b) == IF Truthy(a) THEN b ELSE a

\* reading a property of undefined or null raises a TypeError
CanRead(v) == v.t \notin {"undefined", "null"}

HasProp(v, k) == v.t = "object" /\ \E i \in 1..Len(v.f) : v.f[i][1] = k

\* v.k : the property's value, undefined when v has no such property
Get(v, k) ==
  IF HasProp(v, k)
  THEN v.f[CHOOSE i \in 1..Len(v.f) : v.f[i][1] = k][2]
  ELSE undefined

\* fields with key k set to x: replaced in place, appended when new
SetField(f, k, x) ==
  IF \E i \in 1..Len(f) : f[i][1] = k
  THEN [i \in 1..Len(f) |-> IF f[i][1] = k THEN <<k, x>> ELSE f[i]]
  ELSE Append(f, <<k, x>>)

\* v[k] = x in sloppy mode: an object takes the property, a primitive
\* silently drops it (undefined and null raise instead, see CanRead)
SetProp(v, k, x) == IF v.t = "object" THEN Obj(SetField(v.f, k, x)) ELSE v

(***************************************************************************)
(* JSON.parse over token sequences: null, a string, or an object whose     *)
(* members are "key" : value separated by commas (objects may nest).       *)
(***************************************************************************)
Tok(k) == [k |-> k, v |-> ""]
S(v) == [k |-> "str", v |-> v]

ParseFail == [ok |-> FALSE, value |-> undefined, next |-> 0]

RECURSIVE ParseValue(_, _), ParseMembers(_, _, _)
ParseValue(toks, i) ==
  IF i > Len(toks) THEN ParseFail
  ELSE CASE toks[i].k = "null" -> [ok |-> TRUE, value |-> null, next |-> i + 1]
         [] toks[i].k = "str" ->
              [ok |-> TRUE, value |-> Str(toks[i].v), next |-> i + 1]
         [] toks[i].k = "{" ->
              IF i + 1 <= Len(toks) /\ toks[i + 1].k = "}"
              THEN [ok |-> TRUE, value |-> Obj(<<>>), next |-> i + 2]
              ELSE ParseMembers(toks, i + 1, <<>>)
         [] OTHER -> ParseFail

ParseMembers(toks, i, acc) ==
  IF i + 1 > Len(toks) \/ toks[i].k # "str" \/ toks[i + 1].k # ":"
  THEN ParseFail
  ELSE LET r == ParseValue(toks, i + 2)
       IN IF ~r.ok \/ r.next > Len(toks) THEN ParseFail
          ELSE LET acc2 == SetField(acc, toks[i].v, r.value)
               IN CASE toks[r.next].k = "}" ->
                         [ok |-> TRUE, value |-> Obj(acc2), next |-> r.next + 1]
                    [] toks[r.next].k = "," -> ParseMembers(toks, r.next + 1, acc2)
                    [] OTHER -> ParseFail

SyntaxError == Err("SyntaxError", Str("Unexpected token"), undefined)
TypeError == Err("TypeError", Str("Cannot read property"), undefined)

\* JSON.parse(text): [ok, value], value being the SyntaxError raised when not ok.
\* A non-string argument is converted to a string first: undefined becomes
\* the text `undefined`, which is not JSON.
JSONparse(text) ==
  IF text.t # "text" THEN [ok |-> FALSE, value |-> SyntaxError]
  ELSE LET r == ParseValue(text.toks, 1)
       IN IF r.ok /\ r.next = Len(text.toks) + 1
          THEN [ok |-> TRUE, value |-> r.value]
          ELSE [ok |-> FALSE, value |-> SyntaxError]

(***************************************************************************)
(* The strategy object and the calls made on it.                           *)
(***************************************************************************)
VARIABLES
  givenOptions,   \* the options the constructor was called with
  strategy,       \* the fields the constructor sets on `this`
  pc,             \* per call: "idle", "fetching", "verifying" or "done"
  req,            \* per call: the request authenticate was given
  accessToken,    \* per call: the local accessToken of authenticate
  refreshToken,   \* per call: the local refreshToken of authenticate
  gets,           \* per call: the calls made to this._oauth2.get
  fetched,        \* per call: what the OAuth2 client gave its callback
  verifyCalls,    \* per call: the argument lists this._verify was called with
  verifiedCalls,  \* per call: the argument lists `verified` was called with
  outcomes,       \* per call: the calls made to self.success/fail/error
  threw,          \* per call: whether this._verify raised synchronously
  raised,         \* per call: the values this._verify raised, in order
  uncaught        \* per call: whether an exception left the strategy's code

vars == <<givenOptions, strategy, pc, req, accessToken, refreshToken, gets, fetched,
          verifyCalls, verifiedCalls, outcomes, threw, raised, uncaught>>

(***************************************************************************)
(* The constructor.                                                        *)
(***************************************************************************)
DefaultAuthorizationURL == Str("https://www.amazon.com/ap/oa")
DefaultTokenURL == Str("https://api.amazon.com/auth/o2/token")
DefaultProfileURL == Str("https://api.amazon.com/user/profile")

\* the profile endpoint fixed in userProfile, whatever options.profileURL is
AmazonTokenStrategyFixedProfileURL(_options) ==
  LET options == Or(_options, Obj(<<>>))
  IN [name |-> Str("amazon-token"),
      _profileURL |-> DefaultProfileURL,
      _passReqToCallback |-> Get(options, "passReqToCallback"),
      _oauth2 |-> [_authorizeUrl |->
                     Or(Get(options, "authorizationURL"), DefaultAuthorizationURL),
                   _accessTokenUrl |-> Or(Get(options, "tokenURL"), DefaultTokenURL),
                   _useAuthorizationHeaderForGET |-> Bool(TRUE)]]

AmazonTokenStrategy(_options) ==
  LET options == Or(_options, Obj(<<>>))
      authorizationURL == Or(Get(options, "authorizationURL"), DefaultAuthorizationURL)
      tokenURL == Or(Get(options, "tokenURL"), DefaultTokenURL)
      profileURL == Or(Get(options, "profileURL"), DefaultProfileURL)
  IN [name |-> Str("amazon-token"),
      _profileURL |-> profileURL,
      _passReqToCallback |-> Get(options, "passReqToCallback"),
      _oauth2 |-> [_authorizeUrl |-> authorizationURL,
                   _accessTokenUrl |-> tokenURL,
                   _useAuthorizationHeaderForGET |-> Bool(TRUE)]]

(***************************************************************************)
(* authenticate: credential extraction and the three outcome callbacks.    *)
(***************************************************************************)
Request(body, query, headers) ==
  [t |-> "request", body |-> body, query |-> query, headers |-> headers]

\* the locations tried in the opposite order
AccessTokenHeadersFirst(r) ==
  Or(Or(And(r.headers, Get(r.headers, "access_token")),
        And(r.query, Get(r.query, "access_token"))),
     And(r.body, Get(r.body, "access_token")))

AccessToken(r) ==
  Or(Or(And(r.body, Get(r.body, "access_token")),
        And(r.query, Get(r.query, "access_token"))),
     And(r.headers, Get(r.headers, "access_token")))

RefreshToken(r) ==
  Or(Or(And(r.body, Get(r.body, "refresh_token")),
        And(r.query, Get(r.query, "refresh_token"))),
     And(r.headers, Get(r.headers, "refresh_token")))

\* a check that lets the empty string through
TokenMissingStrict(at) == at = undefined

\* if (!accessToken)
TokenMissing(at) == ~Truthy(at)

Success(user, info) == [kind |-> "success", args |-> <<user, info>>]
Fail(info) == [kind |-> "fail", args |-> <<info>>]
Error(err) == [kind |-> "error", args |-> <<err>>]

MissingTokenInfo == Obj(<< <<"message", Str("You should provide access_token")>> >>)

\* the user tested before the error
verifiedUserFirst(error, user, info) ==
  IF ~Truthy(user) THEN Fail(info)
  ELSE IF Truthy(error) THEN Error(error)
  ELSE Success(user, info)

\* the error argument never looked at
verifiedErrorIgnored(error, user, info) ==
  IF ~Truthy(user) THEN Fail(info) ELSE Success(user, info)

\* a success remembered on the strategy object: once any call has succeeded,
\* later successes are turned into failures
verifiedOnce(error, user, info) ==
  IF Truthy(error) THEN Error(error)
  ELSE IF ~Truthy(user) THEN Fail(info)
  ELSE IF \E d \in Calls : \E i \in 1..Len(outcomes[d]) : outcomes[d][i].kind = "success"
  THEN Fail(info)
  ELSE Success(user, info)

\* the continuation handed to the verify callback
verified(error, user, info) ==
  IF Truthy(error) THEN Error(error)
  ELSE IF ~Truthy(user) THEN Fail(info)
  ELSE Success(user, info)

\* the closure `verified` of call c, as a value
VerifiedFn(c) == [t |-> "function", name |-> "verified", call |-> c]

\* the flag ignored: the request is never passed
VerifyArgsNoReq(c, r, at, rt, profile) == <<at, rt, profile, VerifiedFn(c)>>

\* the argument list of self._verify
VerifyArgs(c, r, at, rt, profile) ==
  IF Truthy(strategy._passReqToCallback)
  THEN <<r, at, rt, profile, VerifiedFn(c)>>
  ELSE <<at, rt, profile, VerifiedFn(c)>>

(***************************************************************************)
(* userProfile: the callback given to this._oauth2.get.  Each block yields *)
(* [threw, exc, error, profile]: either the exception it raised, or the    *)
(* arguments of the call to done it made.                                  *)
(***************************************************************************)
InternalOAuthError(message, err) == Err("InternalOAuthError", message, err)

Done(error, profile) ==
  [threw |-> FALSE, exc |-> undefined, error |-> error, profile |-> profile]
Raise(e) ==
  [threw |-> TRUE, exc |-> e, error |-> undefined, profile |-> undefined]

\* the try block of the error branch
TryErrorJSON(error) ==
  LET parsed == JSONparse(Get(error, "data"))
      errorJSON == parsed.value
  IN IF ~parsed.ok THEN Raise(parsed.value)
     ELSE IF ~CanRead(errorJSON) THEN Raise(TypeError)
     ELSE Done(InternalOAuthError(Get(errorJSON, "error_description"),
                                  Get(errorJSON, "error")),
               undefined)

\* every transport error wrapped alike, its payload never read
ErrorBranchGeneric(error) ==
  Done(InternalOAuthError(Str("Failed to fetch user profile"), error), undefined)

\* the try block without its catch
ErrorBranchNoCatch(error) == TryErrorJSON(error)

\* the error branch with its catch
ErrorBranch(error) ==
  LET try == TryErrorJSON(error)
  IN IF try.threw
     THEN Done(InternalOAuthError(Str("Failed to fetch user profile"), error),
               undefined)
     ELSE try

\* the profile object built from the parsed body
Profile(body, json) ==
  Obj(<< <<"provider", Str("amazon")>>,
         <<"id", Get(json, "id")>>,
         <<"displayName", Get(json, "name")>>,
         <<"name", Obj(<< <<"familyName", Str("")>>, <<"givenName", Str("")>> >>)>>,
         <<"emails", Arr(<< Obj(<< <<"value", Get(json, "email")>> >>) >>)>>,
         <<"photos", Arr(<<>>)>>,
         <<"_raw", body>>,
         <<"_json", json>> >>)

\* the response's own id kept: json.id is not overwritten
TryProfileNativeId(body) ==
  LET parsed == JSONparse(body)
  IN IF ~parsed.ok THEN Raise(parsed.value)
     ELSE IF ~CanRead(parsed.value) THEN Raise(TypeError)
     ELSE Done(null, Profile(body, parsed.value))

\* the try block of the success branch, up to its call of done
TryProfile(body) ==
  LET parsed == JSONparse(body)
  IN IF ~parsed.ok THEN Raise(parsed.value)
     ELSE IF ~CanRead(parsed.value) THEN Raise(TypeError)
     ELSE LET json == SetProp(parsed.value, "id", Get(parsed.value, "user_id"))
          IN Done(null, Profile(body, json))

\* no catch: the exception leaves the callback
CatchProfileMissing(e) == Raise(e)

\* the catch of the success branch: catch (e) { return done(e); }
CatchProfile(e) == Done(e, undefined)

ProfileBranch(body) ==
  LET try == TryProfile(body)
  IN IF try.threw THEN CatchProfile(try.exc) ELSE try

\* the first call of done for what the OAuth2 client reported
userProfile(error, body) ==
  IF Truthy(error) THEN ErrorBranch(error) ELSE ProfileBranch(body)

\* done(null, profile) moved out of the try: nothing catches
CatchVerifyOutside(e) == Raise(e)

\* done(null, profile) sits inside the try of the success branch: what the
\* verify callback raises while it runs is caught there as well
CatchVerify(e) == CatchProfile(e)

(***************************************************************************)
(* Actions.                                                                *)
(***************************************************************************)
NoBehaviour == [called |-> FALSE, args |-> <<undefined, undefined, undefined>>,
                throws |-> FALSE, exc |-> undefined]

\* the tokens kept on the strategy object instead of in locals: every call
\* in flight sees the tokens of the latest request
AuthenticateSharedTokens(c, r) ==
  /\ pc[c] = "idle"
  /\ req' = [req EXCEPT ![c] = r]
  /\ accessToken' = [d \in Calls |-> AccessToken(r)]
  /\ refreshToken' = [d \in Calls |-> RefreshToken(r)]
  /\ IF TokenMissing(AccessToken(r))
     THEN /\ outcomes' = [outcomes EXCEPT ![c] = Append(@, Fail(MissingTokenInfo))]
          /\ pc' = [pc EXCEPT ![c] = "done"]
          /\ gets' = gets
     ELSE /\ gets' = [gets EXCEPT ![c] =
                        Append(@, [url |-> strategy._profileURL,
                                   accessToken |-> AccessToken(r)])]
          /\ pc' = [pc EXCEPT ![c] = "fetching"]
          /\ outcomes' = outcomes
  /\ UNCHANGED <<givenOptions, strategy, fetched, verifyCalls, verifiedCalls, threw, raised,
                 uncaught>>

\* authenticate(req) on call c
Authenticate(c, r) ==
  /\ pc[c] = "idle"
  /\ req' = [req EXCEPT ![c] = r]
  /\ accessToken' = [accessToken EXCEPT ![c] = AccessToken(r)]
  /\ refreshToken' = [refreshToken EXCEPT ![c] = RefreshToken(r)]
  /\ IF TokenMissing(AccessToken(r))
     THEN /\ outcomes' = [outcomes EXCEPT ![c] = Append(@, Fail(MissingTokenInfo))]
          /\ pc' = [pc EXCEPT ![c] = "done"]
          /\ gets' = gets
     ELSE /\ gets' = [gets EXCEPT ![c] =
                        Append(@, [url |-> strategy._profileURL,
                                   accessToken |-> AccessToken(r)])]
          /\ pc' = [pc EXCEPT ![c] = "fetching"]
          /\ outcomes' = outcomes
  /\ UNCHANGED <<givenOptions, strategy, fetched, verifyCalls, verifiedCalls, threw, raised,
                 uncaught>>

\* what the verify callback raised is caught and given to done(e), where a
\* falsy e passes `if (error)`: the verify callback is called a second time,
\* with no profile
Reentered(beh) ==
  /\ beh.throws
  /\ ~CatchVerify(beh.exc).threw
  /\ ~Truthy(CatchVerify(beh.exc).error)

\* the outcomes the verify callback causes while it runs: it may call
\* `verified` before it returns, and it may raise; when it is called a second
\* time, `again` is what it does then
SyncOutcomes(beh, again) ==
  (IF beh.called THEN <<verified(beh.args[1], beh.args[2], beh.args[3])>> ELSE <<>>)
  \o (IF beh.throws /\ ~CatchVerify(beh.exc).threw /\ Truthy(CatchVerify(beh.exc).error)
      THEN <<Error(CatchVerify(beh.exc).error)>> ELSE <<>>)
  \o (IF Reentered(beh) /\ again.called
      THEN <<verified(again.args[1], again.args[2], again.args[3])>> ELSE <<>>)

\* a failed fetch tried once more before the error is reported
FetchCompleteRetry(c, error, body, beh, again) ==
  /\ pc[c] = "fetching"
  /\ fetched' = [fetched EXCEPT ![c] = Append(@, [error |-> error, body |-> body])]
  /\ LET r == userProfile(error, body)
     IN IF Truthy(error) /\ Len(gets[c]) < 2
        THEN /\ beh = NoBehaviour /\ again = NoBehaviour
             /\ gets' = [gets EXCEPT ![c] =
                  Append(@, [url |-> strategy._profileURL,
                             accessToken |-> accessToken[c]])]
             /\ UNCHANGED <<pc, verifyCalls, verifiedCalls, outcomes, threw, raised,
                          uncaught>>
        ELSE IF r.threw
        THEN /\ beh = NoBehaviour /\ again = NoBehaviour
             /\ uncaught' = [uncaught EXCEPT ![c] = TRUE]
             /\ pc' = [pc EXCEPT ![c] = "done"]
             /\ UNCHANGED <<verifyCalls, verifiedCalls, outcomes, threw, raised>>
        ELSE IF Truthy(r.error)
        THEN /\ beh = NoBehaviour /\ again = NoBehaviour
             /\ outcomes' = [outcomes EXCEPT ![c] = Append(@, Error(r.error))]
             /\ pc' = [pc EXCEPT ![c] = "done"]
             /\ UNCHANGED <<verifyCalls, verifiedCalls, threw, raised,
                 uncaught>>
        ELSE /\ ~Reentered(beh) => again = NoBehaviour
             /\ verifyCalls' = [verifyCalls EXCEPT ![c] =
                  Append(@, VerifyArgs(c, req[c], accessToken[c],
                                       refreshToken[c], r.profile))
                  \o (IF Reentered(beh)
                      THEN <<VerifyArgs(c, req[c], accessToken[c], refreshToken[c],
                                        CatchVerify(beh.exc).profile)>>
                      ELSE <<>>)]
             /\ verifiedCalls' = [verifiedCalls EXCEPT ![c] =
                  @ \o (IF beh.called THEN <<beh.args>> ELSE <<>>)
                    \o (IF Reentered(beh) /\ again.called THEN <<again.args>> ELSE <<>>)]
             /\ threw' = [threw EXCEPT ![c] = beh.throws]
             /\ raised' = [raised EXCEPT ![c] =
                  @ \o (IF beh.throws THEN <<beh.exc>> ELSE <<>>)
                    \o (IF Reentered(beh) /\ again.throws THEN <<again.exc>> ELSE <<>>)]
             /\ uncaught' = [uncaught EXCEPT ![c] =
                  \/ beh.throws /\ CatchVerify(beh.exc).threw
                  \/ Reentered(beh) /\ again.throws]
             /\ outcomes' = [outcomes EXCEPT ![c] = @ \o SyncOutcomes(beh, again)]
             /\ pc' = [pc EXCEPT ![c] = "verifying"]
  /\ IF Truthy(error) /\ Len(gets[c]) < 2 THEN TRUE ELSE gets' = gets
  /\ UNCHANGED <<givenOptions, strategy, req, accessToken, refreshToken>>

\* the OAuth2 client calls back with (error, body); beh is what the verify
\* callback does before it returns, when it is reached, and again what it
\* does when the catch of the success branch reaches it a second time
FetchComplete(c, error, body, beh, again) ==
  /\ pc[c] = "fetching"
  /\ fetched' = [fetched EXCEPT ![c] = Append(@, [error |-> error, body |-> body])]
  /\ LET r == userProfile(error, body)
     IN IF r.threw
        THEN /\ beh = NoBehaviour /\ again = NoBehaviour
             /\ uncaught' = [uncaught EXCEPT ![c] = TRUE]
             /\ pc' = [pc EXCEPT ![c] = "done"]
             /\ UNCHANGED <<verifyCalls, verifiedCalls, outcomes, threw, raised>>
        ELSE IF Truthy(r.error)
        THEN /\ beh = NoBehaviour /\ again = NoBehaviour
             /\ outcomes' = [outcomes EXCEPT ![c] = Append(@, Error(r.error))]
             /\ pc' = [pc EXCEPT ![c] = "done"]
             /\ UNCHANGED <<verifyCalls, verifiedCalls, threw, raised,
                 uncaught>>
        ELSE /\ ~Reentered(beh) => again = NoBehaviour
             /\ verifyCalls' = [verifyCalls EXCEPT ![c] =
                  Append(@, VerifyArgs(c, req[c], accessToken[c],
                                       refreshToken[c], r.profile))
                  \o (IF Reentered(beh)
                      THEN <<VerifyArgs(c, req[c], accessToken[c], refreshToken[c],
                                        CatchVerify(beh.exc).profile)>>
                      ELSE <<>>)]
             /\ verifiedCalls' = [verifiedCalls EXCEPT ![c] =
                  @ \o (IF beh.called THEN <<beh.args>> ELSE <<>>)
                    \o (IF Reentered(beh) /\ again.called THEN <<again.args>> ELSE <<>>)]
             /\ threw' = [threw EXCEPT ![c] = beh.throws]
             /\ raised' = [raised EXCEPT ![c] =
                  @ \o (IF beh.throws THEN <<beh.exc>> ELSE <<>>)
                    \o (IF Reentered(beh) /\ again.throws THEN <<again.exc>> ELSE <<>>)]
             /\ uncaught' = [uncaught EXCEPT ![c] =
                  \/ beh.throws /\ CatchVerify(beh.exc).threw
                  \/ Reentered(beh) /\ again.throws]
             /\ outcomes' = [outcomes EXCEPT ![c] = @ \o SyncOutcomes(beh, again)]
             /\ pc' = [pc EXCEPT ![c] = "verifying"]
  /\ UNCHANGED <<givenOptions, strategy, req, accessToken, refreshToken, gets>>

\* the application calls `verified` after the verify callback has returned
Verified(c, error, user, info) ==
  /\ pc[c] = "verifying"
  /\ Len(verifiedCalls[c]) < MaxVerified
  /\ verifiedCalls' = [verifiedCalls EXCEPT ![c] = Append(@, <<error, user, info>>)]
  /\ outcomes' = [outcomes EXCEPT ![c] = Append(@, verified(error, user, info))]
  /\ UNCHANGED <<givenOptions, strategy, pc, req, accessToken, refreshToken, gets, fetched,
                 verifyCalls, threw, raised, uncaught>>

\* the application lets go of `verified`: it can no longer be called
Release(c) ==
  /\ pc[c] = "verifying"
  /\ pc' = [pc EXCEPT ![c] = "done"]
  /\ UNCHANGED <<givenOptions, strategy, req, accessToken, refreshToken, gets, fetched,
                 verifyCalls, verifiedCalls, outcomes, threw, raised, uncaught>>

(***************************************************************************)
(* Inputs.                                                                 *)
(***************************************************************************)
\* constructor options: none at all, the documented ones, custom URLs, and
\* a profileURL given as the empty string
OptionsSet ==
  { undefined,
    Obj(<< <<"clientID", Str("123-456-789")>>,
           <<"clientSecret", Str("shhh-its-a-secret")>>,
           <<"passReqToCallback", Bool(TRUE)>> >>),
    Obj(<< <<"profileURL", Str("https://example.test/profile")>>,
           <<"passReqToCallback", Bool(FALSE)>> >>),
    Obj(<< <<"authorizationURL", Str("https://example.test/oa")>>,
           <<"tokenURL", Str("https://example.test/token")>>,
           <<"profileURL", Str("https://example.test/profile")>>,
           <<"passReqToCallback", Bool(TRUE)>> >>),
    Obj(<< <<"tokenURL", Str("https://example.test/token")>>,
           <<"profileURL", Str("")>> >>) }

\* a body, query or headers mapping holding the given tokens (undefined:
\* the key is absent)
Container(at, rt) ==
  Obj((IF at = undefined THEN <<>> ELSE << <<"access_token", at>> >>)
      \o (IF rt = undefined THEN <<>> ELSE << <<"refresh_token", rt>> >>))

\* the token values a location may hold: absent, empty, or its own token
TokenValues(loc, field) == {undefined, Str(""), Str(field \o "-" \o loc)}

Containers(loc) ==
  {undefined} \cup {Container(at, rt) : at \in TokenValues(loc, "at"),
                                        rt \in TokenValues(loc, "rt")}

AllRequests ==
  {Request(b, q, h) : b \in Containers("body"), q \in Containers("query"),
                      h \in Containers("headers")}

\* the requests the whole pipeline is run on
PipelineRequests ==
  { Request(undefined, undefined, undefined),
    Request(Container(Str("at-body"), Str("rt-body")), Obj(<<>>), Obj(<<>>)),
    Request(undefined, Obj(<<>>), Container(Str("at-headers"), undefined)) }

Member(k, v) == <<S(k), Tok(":"), S(v)>>
Comma == <<Tok(",")>>
Braces(members) == Text(<<Tok("{")>> \o members \o <<Tok("}")>>)

\* response bodies of a fetch that succeeded
JaneBody ==
  Braces(Member("user_id", "123") \o Comma \o Member("name", "Jane Doe")
         \o Comma \o Member("email", "jane@example.com"))
NativeIdBody ==
  Braces(Member("id", "native-9") \o Comma \o Member("user_id", "123")
         \o Comma \o Member("name", "Jane Doe")
         \o Comma \o Member("email", "jane@example.com"))
NoNameBody == Braces(Member("user_id", "123"))
NullNameBody ==
  Braces(Member("user_id", "123") \o Comma \o <<S("name"), Tok(":"), Tok("null")>>)
LegacyBody ==
  Braces(Member("id", "native-9") \o Comma \o Member("displayName", "Jane Doe")
         \o Comma \o <<S("image"), Tok(":")>>
         \o <<Tok("{")>> \o Member("url", "http://img") \o <<Tok("}")>>)
EmptyObjectBody == Braces(<<>>)
StringBody == Text(<<S("OK")>>)
NullBody == Text(<<Tok("null")>>)
TruncatedBody == Text(<<Tok("{")>> \o Member("user_id", "123"))
TrailingCommaBody == Braces(Member("user_id", "123") \o Comma)
HtmlBody == Text(<<Tok("<html>")>>)
EmptyBody == Text(<<>>)

Bodies ==
  { JaneBody, NativeIdBody, NoNameBody, NullNameBody, LegacyBody,
    EmptyObjectBody, StringBody, NullBody, TruncatedBody, TrailingCommaBody,
    HtmlBody, EmptyBody }

\* payloads (error.data) of a fetch that failed
StructuredPayload ==
  Braces(Member("error", "invalid_token") \o Comma
         \o Member("error_description", "token expired"))
ErrorOnlyPayload == Braces(Member("error", "invalid_request"))

Payloads ==
  { StructuredPayload, ErrorOnlyPayload, EmptyObjectBody, StringBody, NullBody,
    TruncatedBody, HtmlBody, EmptyBody }

\* the errors the OAuth2 client reports: {statusCode, data}, or no data
TransportErrors ==
  {Obj(<< <<"statusCode", Num(401)>>, <<"data", d>> >>) : d \in Payloads}
  \cup { Obj(<< <<"statusCode", Num(500)>> >>),
         Err("Error", Str("connect ECONNREFUSED"), undefined) }

FetchResults ==
  {[error |-> e, body |-> undefined] : e \in TransportErrors}
  \cup {[error |-> null, body |-> b] : b \in Bodies}

\* what the application passes to `verified`
AppError == Err("Error", Str("db down"), undefined)
User == Obj(<< <<"id", Num(1)>> >>)
ScopeInfo == Obj(<< <<"scope", Str("all")>> >>)
RejectedInfo == Obj(<< <<"message", Str("rejected")>> >>)

VerifiedArgs ==
  { <<AppError, User, ScopeInfo>>,
    <<AppError, undefined, undefined>>,
    <<null, Bool(FALSE), RejectedInfo>>,
    <<null, undefined, undefined>>,
    <<null, User, ScopeInfo>>,
    <<undefined, User, undefined>> }

\* what the verify callback does before it returns; what it raises is an
\* Error object, or the value null (throw null)
Behaviours ==
  {[called |-> FALSE, args |-> <<undefined, undefined, undefined>>,
    throws |-> th, exc |-> IF th THEN AppError ELSE undefined] : th \in BOOLEAN}
  \cup {[called |-> TRUE, args |-> a, throws |-> th,
         exc |-> IF th THEN AppError ELSE undefined] :
           a \in VerifiedArgs, th \in BOOLEAN}
  \cup {[called |-> FALSE, args |-> <<undefined, undefined, undefined>>,
         throws |-> TRUE, exc |-> null]}

\* what the verify callback does when it is called a second time
AgainBehaviours ==
  {NoBehaviour,
   [called |-> TRUE, args |-> <<null, User, ScopeInfo>>,
    throws |-> FALSE, exc |-> undefined],
   [called |-> FALSE, args |-> <<undefined, undefined, undefined>>,
    throws |-> TRUE, exc |-> AppError]}

(***************************************************************************)
(* Specifications.                                                         *)
(***************************************************************************)
NoRequest == undefined

Init ==
  /\ givenOptions \in OptionsSet
  /\ strategy = AmazonTokenStrategy(givenOptions)
  /\ pc = [c \in Calls |-> "idle"]
  /\ req = [c \in Calls |-> NoRequest]
  /\ accessToken = [c \in Calls |-> undefined]
  /\ refreshToken = [c \in Calls |-> undefined]
  /\ gets = [c \in Calls |-> <<>>]
  /\ fetched = [c \in Calls |-> <<>>]
  /\ verifyCalls = [c \in Calls |-> <<>>]
  /\ verifiedCalls = [c \in Calls |-> <<>>]
  /\ outcomes = [c \in Calls |-> <<>>]
  /\ threw = [c \in Calls |-> FALSE]
  /\ raised = [c \in Calls |-> <<>>]
  /\ uncaught = [c \in Calls |-> FALSE]

\* one authenticate call, from the request to the reported outcome
Next ==
  \/ \E r \in PipelineRequests : Authenticate(1, r)
  \/ \E f \in FetchResults, beh \in Behaviours, again \in AgainBehaviours :
       FetchComplete(1, f.error, f.body, beh, again)
  \/ \E a \in VerifiedArgs : Verified(1, a[1], a[2], a[3])
  \/ Release(1)

Spec == Init /\ [][Next]_vars

\* credential extraction alone, over every shape of request
NextCredentials ==
  \/ \E r \in AllRequests : Authenticate(1, r)
  \/ \E e \in {null, Obj(<< <<"statusCode", Num(500)>> >>)} :
       FetchComplete(1, e, IF e = null THEN JaneBody ELSE undefined, NoBehaviour,
                     NoBehaviour)
  \/ Verified(1, null, User, ScopeInfo)
  \/ Release(1)

SpecCredentials == Init /\ [][NextCredentials]_vars

\* every call of the strategy object in flight at once, each until the
\* application has used up its invocations of `verified`
ConcurrentRequests ==
  { Request(undefined, undefined, undefined),
    Request(Container(Str("at-body"), Str("rt-body")), Obj(<<>>), Obj(<<>>)),
    Request(undefined, Obj(<<>>), Container(Str("at-headers"), undefined)) }

ConcurrentFetchResults ==
  { [error |-> Obj(<< <<"statusCode", Num(500)>> >>), body |-> undefined],
    [error |-> null, body |-> JaneBody],
    [error |-> null, body |-> TruncatedBody] }

ConcurrentVerifiedArgs == { <<null, Bool(FALSE), RejectedInfo>>, <<null, User, ScopeInfo>> }

NextConcurrent ==
  \E c \in Calls :
    \/ \E r \in ConcurrentRequests : Authenticate(c, r)
    \/ \E f \in ConcurrentFetchResults : FetchComplete(c, f.error, f.body, NoBehaviour, NoBehaviour)
    \/ \E a \in ConcurrentVerifiedArgs : Verified(c, a[1], a[2], a[3])

\* the strategy constructed as the documentation shows
InitConcurrent ==
  /\ Init
  /\ givenOptions =
       Obj(<< <<"clientID", Str("123-456-789")>>,
              <<"clientSecret", Str("shhh-its-a-secret")>>,
              <<"passReqToCallback", Bool(TRUE)>> >>)

SpecConcurrent == InitConcurrent /\ [][NextConcurrent]_vars

(***************************************************************************)
(* Properties.                                                             *)
(***************************************************************************)
\* the profile a verify call was given: the argument before the continuation
ProfileArg(args) == args[Len(args) - 1]

\* the falsy values of JavaScript among the values of the model
IsFalsy(v) == v \in {undefined, null, Bool(FALSE), Str(""), Num(0), Text(<<>>)}

NoTokenAt(container, key) ==
  \/ container = undefined
  \/ ~HasProp(container, key)
  \/ Get(container, key) = Str("")

NoAccessToken(r) ==
  /\ NoTokenAt(r.body, "access_token")
  /\ NoTokenAt(r.query, "access_token")
  /\ NoTokenAt(r.headers, "access_token")

\* C2: a request without an access token in body, query and headers gets
\* fail({message: "You should provide access_token"}) and nothing else: no
\* call of the OAuth2 client, no call of the verify callback.
C2_MissingTokenFails ==
  \A c \in Calls :
    pc[c] # "idle" /\ NoAccessToken(req[c]) =>
      /\ outcomes[c] =
           <<[kind |-> "fail",
              args |-> <<Obj(<< <<"message", Str("You should provide access_token")>> >>)>>]>>
      /\ gets[c] = <<>>
      /\ fetched[c] = <<>>
      /\ verifyCalls[c] = <<>>
      /\ pc[c] = "done"

\* a request whose only access_token is an empty header value has failed
C2_Witness ==
  \E c \in Calls :
    /\ req[c] = Request(undefined, Obj(<<>>), Container(Str(""), Str("rt-headers")))
    /\ outcomes[c] = <<Fail(MissingTokenInfo)>>

\* the first non-empty value of a key, looking in body, query, headers
FirstNonEmpty(r, key) ==
  IF ~NoTokenAt(r.body, key) THEN Get(r.body, key)
  ELSE IF ~NoTokenAt(r.query, key) THEN Get(r.query, key)
  ELSE IF ~NoTokenAt(r.headers, key) THEN Get(r.headers, key)
  ELSE undefined

\* C3: each of accessToken and refreshToken is the first non-empty value of
\* its key in the order body, query, headers, each on its own; with no
\* non-empty value it is falsy.
C3_BodyQueryHeaders ==
  \A c \in Calls :
    pc[c] # "idle" =>
      /\ IF FirstNonEmpty(req[c], "access_token") = undefined
         THEN IsFalsy(accessToken[c])
         ELSE accessToken[c] = FirstNonEmpty(req[c], "access_token")
      /\ IF FirstNonEmpty(req[c], "refresh_token") = undefined
         THEN IsFalsy(refreshToken[c])
         ELSE refreshToken[c] = FirstNonEmpty(req[c], "refresh_token")
      /\ \A i \in 1..Len(gets[c]) : gets[c][i].accessToken = accessToken[c]

\* body, query and headers all hold different tokens, the body has an empty
\* refresh token: the access token is the body's, the refresh token the query's
C3_Witness ==
  \E c \in Calls :
    /\ req[c] = Request(Container(Str("at-body"), Str("")),
                        Container(Str("at-query"), Str("rt-query")),
                        Container(Str("at-headers"), Str("rt-headers")))
    /\ accessToken[c] = Str("at-body")
    /\ refreshToken[c] = Str("rt-query")
    /\ gets[c] = <<[url |-> strategy._profileURL, accessToken |-> Str("at-body")]>>

\* C4: each call verified(error, user, info) reports error(error) when error
\* is truthy, else fail(info) when user is falsy, else success(user, info),
\* with user and info as given.
C4_VerifiedOutcome ==
  [][\A c \in Calls :
       Len(verifiedCalls'[c]) = Len(verifiedCalls[c]) + 1 =>
         LET a == verifiedCalls'[c][Len(verifiedCalls'[c])]
             at == Len(outcomes[c]) + 1
         IN /\ Len(outcomes'[c]) >= at
            /\ outcomes'[c][at] =
                 IF ~IsFalsy(a[1]) THEN [kind |-> "error", args |-> <<a[1]>>]
                 ELSE IF IsFalsy(a[2]) THEN [kind |-> "fail", args |-> <<a[3]>>]
                 ELSE [kind |-> "success", args |-> <<a[2], a[3]>>]]_vars

\* verified(error, user, info) with a truthy user was reported as the error,
\* then verified(null, false, {message: "rejected"}) as that fail
C4_Witness ==
  \E c \in Calls :
    /\ verifiedCalls[c] = << <<AppError, User, ScopeInfo>>,
                             <<null, Bool(FALSE), RejectedInfo>> >>
    /\ outcomes[c] = <<Error(AppError), Fail(RejectedInfo)>>

\* the transport error and the body the OAuth2 client reported to call c
FetchedError(c) == fetched[c][1].error
FetchedBody(c) == fetched[c][1].body

\* C5 as stated: a transport error whose payload parses as JSON is reported
\* through error as an InternalOAuthError whose message is the payload's
\* error_description and whose oauthError is the payload's error.
C5_StructuredError ==
  \A c \in Calls :
    (/\ fetched[c] # <<>>
     /\ ~IsFalsy(FetchedError(c))
     /\ JSONparse(Get(FetchedError(c), "data")).ok) =>
      LET payload == JSONparse(Get(FetchedError(c), "data")).value
      IN outcomes[c] =
           <<[kind |-> "error",
              args |-> <<[t |-> "error", name |-> "InternalOAuthError",
                          message |-> Get(payload, "error_description"),
                          oauthError |-> Get(payload, "error")]>>]>>

\* C5 amended: the same, for a payload that parses as JSON to a value other
\* than null (the payload `null` parses, has no fields to read, and is
\* reported as the generic wrapped error of C6).
C5_StructuredErrorNonNull ==
  \A c \in Calls :
    (/\ fetched[c] # <<>>
     /\ ~IsFalsy(FetchedError(c))
     /\ JSONparse(Get(FetchedError(c), "data")).ok
     /\ JSONparse(Get(FetchedError(c), "data")).value # null) =>
      LET payload == JSONparse(Get(FetchedError(c), "data")).value
      IN /\ outcomes[c] =
              <<[kind |-> "error",
                 args |-> <<[t |-> "error", name |-> "InternalOAuthError",
                             message |-> Get(payload, "error_description"),
                             oauthError |-> Get(payload, "error")]>>]>>
         /\ verifyCalls[c] = <<>>
         /\ pc[c] = "done"

\* the payload {"error": "invalid_token", "error_description": "token
\* expired"} was reported as the error carrying both
C5_Witness ==
  \E c \in Calls :
    /\ fetched[c] # <<>>
    /\ Get(FetchedError(c), "data") = StructuredPayload
    /\ outcomes[c] =
         <<Error(Err("InternalOAuthError", Str("token expired"), Str("invalid_token")))>>

\* C6: a transport error whose payload is missing or is not valid JSON is
\* reported through error as InternalOAuthError("Failed to fetch user
\* profile") wrapping the transport error; no exception leaves the strategy.
C6_GenericError ==
  \A c \in Calls :
    (/\ fetched[c] # <<>>
     /\ ~IsFalsy(FetchedError(c))
     /\ ~JSONparse(Get(FetchedError(c), "data")).ok) =>
      /\ outcomes[c] =
           <<[kind |-> "error",
              args |-> <<[t |-> "error", name |-> "InternalOAuthError",
                          message |-> Str("Failed to fetch user profile"),
                          oauthError |-> FetchedError(c)]>>]>>
      /\ ~uncaught[c]
      /\ verifyCalls[c] = <<>>
      /\ pc[c] = "done"

\* an error with an HTML payload and one with no payload, both wrapped
C6_Witness ==
  \E c \in Calls :
    /\ fetched[c] # <<>>
    /\ Get(FetchedError(c), "data") \in {HtmlBody, undefined}
    /\ Len(outcomes[c]) = 1
    /\ outcomes[c][1].args[1].message = Str("Failed to fetch user profile")
    /\ outcomes[c][1].args[1].oauthError = FetchedError(c)

\* C7: a fetch that succeeded with a body that is not valid JSON is reported
\* through error with the exception JSON.parse raised; the verify callback
\* is not called, nothing else is reported, no exception leaves the strategy.
C7_MalformedBody ==
  \A c \in Calls :
    (/\ fetched[c] # <<>>
     /\ IsFalsy(FetchedError(c))
     /\ ~JSONparse(FetchedBody(c)).ok) =>
      /\ outcomes[c] = <<[kind |-> "error", args |-> <<SyntaxError>>]>>
      /\ ~uncaught[c]
      /\ verifyCalls[c] = <<>>
      /\ verifiedCalls[c] = <<>>
      /\ pc[c] = "done"

\* a truncated body was reported as the SyntaxError
C7_Witness ==
  \E c \in Calls :
    /\ fetched[c] = <<[error |-> null, body |-> TruncatedBody]>>
    /\ outcomes[c] = <<Error(SyntaxError)>>
    /\ pc[c] = "done"

\* neither null nor undefined
Defined(v) == v # undefined /\ v # null

\* C8: for a response that is a JSON object, the profile that normalization
\* hands to the verify callback has no null or undefined in displayName,
\* name.familyName, name.givenName, emails or photos: a missing name gives
\* the empty string, a missing email an empty emails collection.
C8_NoUndefinedInProfile ==
  \A c \in Calls :
    verifyCalls[c] # <<>> =>
      LET profile == ProfileArg(verifyCalls[c][1])
          json == JSONparse(FetchedBody(c)).value
      IN json.t = "object" =>
         /\ Defined(Get(profile, "displayName"))
         /\ Defined(Get(Get(profile, "name"), "familyName"))
         /\ Defined(Get(Get(profile, "name"), "givenName"))
         /\ Get(profile, "emails").t = "array"
         /\ Get(profile, "photos").t = "array"
         /\ \A k \in 1..Len(Get(profile, "emails").a) :
              Defined(Get(Get(profile, "emails").a[k], "value"))
         /\ ~HasProp(json, "name") => Get(profile, "displayName") = Str("")
         /\ ~HasProp(json, "email") => Get(profile, "emails") = Arr(<<>>)

\* the fields of a response that C9 is about
HasUserIdNameEmail(json) ==
  /\ HasProp(json, "user_id") /\ HasProp(json, "name") /\ HasProp(json, "email")

\* C9: for a response with user_id, name and email the profile has provider
\* "amazon", id = user_id (whatever id the response has), displayName = name,
\* name {familyName: "", givenName: ""}, emails [{value: email}], photos [].
C9_Normalized ==
  \A c \in Calls :
    verifyCalls[c] # <<>> =>
      LET profile == ProfileArg(verifyCalls[c][1])
          json == JSONparse(FetchedBody(c)).value
      IN HasUserIdNameEmail(json) =>
           /\ Get(profile, "provider") = Str("amazon")
           /\ Get(profile, "id") = Get(json, "user_id")
           /\ Get(profile, "displayName") = Get(json, "name")
           /\ Get(profile, "name") =
                Obj(<< <<"familyName", Str("")>>, <<"givenName", Str("")>> >>)
           /\ Get(profile, "emails") =
                Arr(<< Obj(<< <<"value", Get(json, "email")>> >>) >>)
           /\ Get(profile, "photos") = Arr(<<>>)

\* the response {"id": "native-9", "user_id": "123", "name": "Jane Doe",
\* "email": "jane@example.com"} gave the profile of the specification
C9_Witness ==
  \E c \in Calls :
    /\ fetched[c] = <<[error |-> null, body |-> NativeIdBody]>>
    /\ verifyCalls[c] # <<>>
    /\ LET profile == ProfileArg(verifyCalls[c][1])
       IN /\ Get(profile, "provider") = Str("amazon")
          /\ Get(profile, "id") = Str("123")
          /\ Get(profile, "displayName") = Str("Jane Doe")
          /\ Get(profile, "emails") =
               Arr(<< Obj(<< <<"value", Str("jane@example.com")>> >>) >>)
          /\ Get(profile, "photos") = Arr(<<>>)

\* C10: the verify callback is called with (accessToken, refreshToken,
\* profile, verified), preceded by the request when passReqToCallback is
\* set: the tokens are the first non-empty ones of the request, the request
\* is the one authenticate was given, the profile of the call that follows
\* the fetch is the normalized one, and a missing refresh token does not keep
\* the verify callback from being called.
C10_VerifyArguments ==
  \A c \in Calls :
    /\ \A i \in 1..Len(verifyCalls[c]) :
         LET args == verifyCalls[c][i]
             rest == IF IsFalsy(strategy._passReqToCallback)
                     THEN args ELSE Tail(args)
         IN /\ IsFalsy(strategy._passReqToCallback) => Len(args) = 4
            /\ ~IsFalsy(strategy._passReqToCallback) =>
                 Len(args) = 5 /\ args[1] = req[c]
            /\ rest[1] = FirstNonEmpty(req[c], "access_token")
            /\ rest[2] = FirstNonEmpty(req[c], "refresh_token")
            /\ i = 1 =>
                 rest[3] = Profile(FetchedBody(c), SetProp(JSONparse(FetchedBody(c)).value,
                             "id", Get(JSONparse(FetchedBody(c)).value, "user_id")))
            /\ rest[4] = [t |-> "function", name |-> "verified", call |-> c]
    /\ (/\ fetched[c] # <<>>
        /\ IsFalsy(FetchedError(c))
        /\ JSONparse(FetchedBody(c)).ok
        /\ JSONparse(FetchedBody(c)).value # null) => Len(verifyCalls[c]) >= 1

\* passReqToCallback set, a request with no refresh token anywhere: the
\* verify callback got the request, the token and an undefined refresh token
C10_Witness ==
  \E c \in Calls :
    /\ ~IsFalsy(strategy._passReqToCallback)
    /\ req[c] = Request(undefined, Obj(<<>>), Container(Str("at-headers"), undefined))
    /\ verifyCalls[c] # <<>>
    /\ verifyCalls[c][1][1] = req[c]
    /\ verifyCalls[c][1][2] = Str("at-headers")
    /\ verifyCalls[c][1][3] = undefined
    /\ outcomes[c] = <<Success(User, ScopeInfo)>>

\* everything the model keeps about call c
CallState(c) ==
  <<pc[c], req[c], accessToken[c], refreshToken[c], gets[c], fetched[c],
    verifyCalls[c], verifiedCalls[c], outcomes[c], threw[c], raised[c],
    uncaught[c]>>

\* the outcome of one invocation verified(a[1], a[2], a[3])
OutcomeOf(a) ==
  IF ~IsFalsy(a[1]) THEN [kind |-> "error", args |-> <<a[1]>>]
  ELSE IF IsFalsy(a[2]) THEN [kind |-> "fail", args |-> <<a[3]>>]
  ELSE [kind |-> "success", args |-> <<a[2], a[3]>>]

\* what call c has to report, from its own request, its own fetch result
\* and its own invocations of `verified`
OwnOutcomes(c) ==
  IF pc[c] = "idle" THEN <<>>
  ELSE IF NoAccessToken(req[c])
  THEN <<[kind |-> "fail",
          args |-> <<Obj(<< <<"message", Str("You should provide access_token")>> >>)>>]>>
  ELSE IF fetched[c] = <<>> THEN <<>>
  ELSE IF ~IsFalsy(FetchedError(c))
  THEN <<[kind |-> "error",
          args |-> <<[t |-> "error", name |-> "InternalOAuthError",
                      message |-> Str("Failed to fetch user profile"),
                      oauthError |-> FetchedError(c)]>>]>>
  ELSE IF ~JSONparse(FetchedBody(c)).ok
  THEN <<[kind |-> "error", args |-> <<SyntaxError>>]>>
  ELSE [i \in 1..Len(verifiedCalls[c]) |-> OutcomeOf(verifiedCalls[c][i])]

\* C11: with any number of authenticate calls in flight, in every
\* interleaving, each call's outcomes are those its own request, fetch result
\* and verify results determine, the tokens it fetches with and hands to the
\* verify callback are its own request's, a step of one call changes nothing
\* of another call, and no step changes the strategy's configuration.
C11_CallsIndependent ==
  /\ [](\A c \in Calls :
          /\ outcomes[c] = OwnOutcomes(c)
          /\ \A i \in 1..Len(gets[c]) :
               gets[c][i].accessToken = FirstNonEmpty(req[c], "access_token")
          /\ \A i \in 1..Len(verifyCalls[c]) :
               /\ verifyCalls[c][i][1] = req[c]
               /\ verifyCalls[c][i][2] = FirstNonEmpty(req[c], "access_token")
               /\ verifyCalls[c][i][3] = FirstNonEmpty(req[c], "refresh_token"))
  /\ [][\A c, d \in Calls :
          c # d /\ CallState(c)' # CallState(c) => CallState(d)' = CallState(d)]_vars
  /\ [][strategy' = strategy]_vars

\* two calls in flight with different requests; the later one finished
\* first with a fail, the earlier one then succeeded for its own token
C11_Witness ==
  \E c, d \in Calls :
    /\ c # d
    /\ accessToken[c] = Str("at-body") /\ accessToken[d] = Str("at-headers")
    /\ outcomes[d] = <<Fail(RejectedInfo)>>
    /\ outcomes[c] = <<Success(User, ScopeInfo)>>
    /\ verifyCalls[c][1][2] = Str("at-body")
    /\ verifyCalls[d][1][2] = Str("at-headers")

\* call c had a valid token, a response that parsed, and a verify callback
\* that called `verified` once, with no error and a user
SucceedingCall(c) ==
  /\ pc[c] # "idle" /\ ~NoAccessToken(req[c])
  /\ fetched[c] # <<>> /\ IsFalsy(FetchedError(c))
  /\ JSONparse(FetchedBody(c)).ok /\ JSONparse(FetchedBody(c)).value # null
  /\ Len(verifiedCalls[c]) = 1
  /\ IsFalsy(verifiedCalls[c][1][1]) /\ ~IsFalsy(verifiedCalls[c][1][2])

\* C12: authenticate calls on the same strategy with the same request, the
\* same provider response and the same succeeding verify result all report
\* the same single success(user, info), and their verify callbacks were given
\* the same tokens and the same profile, however many calls came before.
C12_SameOutcomeEachTime ==
  \A c, d \in Calls :
    (/\ SucceedingCall(c) /\ SucceedingCall(d)
     /\ req[c] = req[d] /\ fetched[c] = fetched[d]
     /\ verifiedCalls[c] = verifiedCalls[d]) =>
      /\ outcomes[c] = <<[kind |-> "success",
                          args |-> <<verifiedCalls[c][1][2], verifiedCalls[c][1][3]>>]>>
      /\ outcomes[d] = outcomes[c]
      /\ \A k \in 1..4 : verifyCalls[d][1][k] = verifyCalls[c][1][k]

\* two calls with the same request and response have both succeeded
C12_Witness ==
  \E c, d \in Calls :
    /\ c # d
    /\ SucceedingCall(c) /\ SucceedingCall(d)
    /\ req[c] = req[d] /\ accessToken[c] = Str("at-body")
    /\ fetched[c] = fetched[d]
    /\ outcomes[c] = <<Success(User, ScopeInfo)>>
    /\ outcomes[d] = <<Success(User, ScopeInfo)>>

\* C13: each authenticate call makes at most one GET through the OAuth2
\* client; a fetch that failed is reported as the one error outcome with
\* still one GET made; once the client has answered or an outcome has been
\* reported, the call makes no further GET.
C13_OneFetchNoRetry ==
  /\ [](\A c \in Calls :
          /\ Len(gets[c]) <= 1
          /\ Len(fetched[c]) <= Len(gets[c])
          /\ (fetched[c] # <<>> /\ ~IsFalsy(FetchedError(c))) =>
               /\ Len(gets[c]) = 1
               /\ Len(outcomes[c]) = 1 /\ outcomes[c][1].kind = "error"
               /\ pc[c] = "done")
  /\ [][\A c \in Calls :
          (outcomes[c] # <<>> \/ fetched[c] # <<>>) => gets'[c] = gets[c]]_vars

\* a fetch failed at the transport: one GET, one error, the call is over
C13_Witness ==
  \E c \in Calls :
    /\ fetched[c] = <<[error |-> Err("Error", Str("connect ECONNREFUSED"), undefined),
                       body |-> undefined]>>
    /\ Len(gets[c]) = 1
    /\ Len(outcomes[c]) = 1 /\ outcomes[c][1].kind = "error"
    /\ pc[c] = "done"

\* the default endpoint of each URL option
DefaultOf(k) ==
  CASE k = "authorizationURL" -> Str("https://www.amazon.com/ap/oa")
    [] k = "tokenURL" -> Str("https://api.amazon.com/auth/o2/token")
    [] k = "profileURL" -> Str("https://api.amazon.com/user/profile")

\* the option when the caller supplied it, the default when it is absent
SuppliedOrDefault(k) ==
  IF HasProp(givenOptions, k) THEN Get(givenOptions, k) ELSE DefaultOf(k)

\* the option when the caller supplied a non-empty one, else the default
NonEmptyOrDefault(k) ==
  IF HasProp(givenOptions, k) /\ Get(givenOptions, k) # Str("")
  THEN Get(givenOptions, k) ELSE DefaultOf(k)

\* C14 as stated: every profile GET goes to the profileURL option when the
\* caller supplied one and to the default endpoint only when it is absent,
\* and by then the OAuth2 client holds the supplied authorizationURL and
\* tokenURL, defaults only where absent.
C14_ConfiguredProfileURL ==
  \A c \in Calls :
    \A i \in 1..Len(gets[c]) :
      /\ gets[c][i].url = SuppliedOrDefault("profileURL")
      /\ strategy._oauth2._authorizeUrl = SuppliedOrDefault("authorizationURL")
      /\ strategy._oauth2._accessTokenUrl = SuppliedOrDefault("tokenURL")

\* C14 amended: the same with the default used when the option is absent or
\* is the empty string (the constructor uses `option || default`).
C14_NonEmptyProfileURL ==
  \A c \in Calls :
    \A i \in 1..Len(gets[c]) :
      /\ gets[c][i].url = NonEmptyOrDefault("profileURL")
      /\ strategy._oauth2._authorizeUrl = NonEmptyOrDefault("authorizationURL")
      /\ strategy._oauth2._accessTokenUrl = NonEmptyOrDefault("tokenURL")

\* a strategy given its own profileURL has fetched from it
C14_Witness ==
  \E c \in Calls :
    /\ Get(givenOptions, "profileURL") = Str("https://example.test/profile")
    /\ ~HasProp(givenOptions, "tokenURL")
    /\ gets[c] = <<[url |-> Str("https://example.test/profile"),
                    accessToken |-> accessToken[c]]>>
    /\ strategy._oauth2._accessTokenUrl = Str("https://api.amazon.com/auth/o2/token")

\* C15: every success reported by a call follows, in that call, a non-empty
\* access token taken from the request, a fetch that completed without
\* error and whose body parsed, and an invocation of `verified` with a falsy
\* error and that truthy user; no success without them.
C15_SuccessOnlyAfterAll ==
  \A c \in Calls :
    \A i \in 1..Len(outcomes[c]) :
      outcomes[c][i].kind = "success" =>
        /\ ~NoAccessToken(req[c])
        /\ accessToken[c] = FirstNonEmpty(req[c], "access_token")
        /\ Len(gets[c]) = 1
        /\ fetched[c] # <<>> /\ IsFalsy(FetchedError(c))
        /\ JSONparse(FetchedBody(c)).ok
        /\ verifyCalls[c] # <<>>
        /\ \E j \in 1..Len(verifiedCalls[c]) :
             /\ IsFalsy(verifiedCalls[c][j][1])
             /\ ~IsFalsy(verifiedCalls[c][j][2])
             /\ outcomes[c][i].args =
                  <<verifiedCalls[c][j][2], verifiedCalls[c][j][3]>>

\* a call whose verify callback first rejected and then accepted: the
\* success is the accepting invocation's
C15_Witness ==
  \E c \in Calls :
    /\ verifiedCalls[c] = << <<null, Bool(FALSE), RejectedInfo>>,
                             <<undefined, User, undefined>> >>
    /\ outcomes[c] = <<Fail(RejectedInfo), Success(User, undefined)>>

\* C16: the verify callback is called at most once per authenticate call,
\* and only with the normalized profile of a fetch that completed without
\* error and parsed, for a request that had a token; also when the verify
\* callback raises while it runs, it has been called once.
C16_VerifyOnceAfterProfile ==
  \A c \in Calls :
    /\ Len(verifyCalls[c]) <= 1
    /\ verifyCalls[c] # <<>> =>
         /\ ~NoAccessToken(req[c])
         /\ fetched[c] # <<>> /\ IsFalsy(FetchedError(c))
         /\ JSONparse(FetchedBody(c)).ok
         /\ Get(ProfileArg(verifyCalls[c][1]), "provider") = Str("amazon")
         /\ Get(ProfileArg(verifyCalls[c][1]), "_raw") = FetchedBody(c)
    /\ threw[c] => Len(verifyCalls[c]) = 1
    /\ (pc[c] = "done" /\ (NoAccessToken(req[c]) \/ ~IsFalsy(FetchedError(c))
                           \/ ~JSONparse(FetchedBody(c)).ok)) =>
         verifyCalls[c] = <<>>

====
